---------------------------- MODULE Spec2Model ----------------------------
(***************************************************************************)
(* A model of gobark (src/bark.go): the Bark push-notification client.     *)
(*                                                                         *)
(* Go strings are byte strings; they are modelled as sequences of bytes    *)
(* (0..255), so that url.PathEscape and url.QueryEscape are computed byte  *)
(* by byte as net/url computes them, and a built target can be taken apart *)
(* again.                                                                  *)
(***************************************************************************)
EXTENDS Integers, Sequences, FiniteSets, TLC

VARIABLES
  c,         \* the *Client returned by the last NewClient (NilClient: none)
  ncErr,     \* the error returned by the last NewClient
  pc,        \* "idle" | "returned" (Send); "start" | "applied" | "built" (builder)
  body,      \* argument body of the current call
  opts,      \* argument opts of the current call (a sequence of Options)
  ctx,       \* argument ctx of the current call: "live" | "cancelled"
  n,         \* the notification of the current call
  applied,   \* how many Options the current call has applied to n
  apiURL,    \* the target the current call built (<<>>: none built)
  issued,    \* how many HTTP GETs the current call handed to client.Do
  resp,      \* what client.Do came back with in the current call
  err,       \* the error the current call returned
  sends,     \* Send calls so far
  sendsNonEmpty, \* Send calls with a non-empty body so far
  requests,  \* HTTP GETs handed to client.Do so far
  ncBaseURL, \* argument baseURL of the last NewClient
  ncKey,     \* argument key of the last NewClient
  news       \* NewClient calls so far

vars == <<c, ncErr, ncBaseURL, ncKey, pc, body, opts, ctx, n, applied, apiURL,
          issued, resp, err, news, sends, sendsNonEmpty, requests>>

-----------------------------------------------------------------------------
(* Bounds of the model. *)

\* Longest sequence of Options enumerated for one call of the builder.
MaxOpts == 2

\* Send calls in one behaviour.
MaxSends == 2

\* NewClient calls in one behaviour.
MaxNews == 2

-----------------------------------------------------------------------------
(* Byte strings. *)

\* The printable ASCII characters, in order, from 0x20 to 0x7E (0x60, the
\* backquote, cannot be written in a string and is left out as "").
Ascii ==
  <<
    " ", "!", "\"", "#", "$", "%", "&", "'", "(", ")", "*", "+", ",", "-", ".", "/",
    "0", "1", "2", "3", "4", "5", "6", "7", "8", "9", ":", ";", "<", "=", ">", "?",
    "@", "A", "B", "C", "D", "E", "F", "G", "H", "I", "J", "K", "L", "M", "N", "O",
    "P", "Q", "R", "S", "T", "U", "V", "W", "X", "Y", "Z", "[", "\\", "]", "^", "_",
    "",  "a", "b", "c", "d", "e", "f", "g", "h", "i", "j", "k", "l", "m", "n", "o",
    "p", "q", "r", "s", "t", "u", "v", "w", "x", "y", "z", "{", "|", "}", "~"
  >>

\* The byte of a printable ASCII character; "\n" is the one control byte used.
Byte(ch) ==
  IF ch = "\n" THEN 10
  ELSE 31 + (CHOOSE i \in 1..Len(Ascii) : Ascii[i] = ch)

RECURSIVE Str(_)
\* The byte string of a tuple of characters.
Str(t) == IF t = <<>> THEN <<>> ELSE <<Byte(Head(t))>> \o Str(Tail(t))

RECURSIVE Join(_, _)
\* ss[1] sep ss[2] sep ... (fmt.Sprintf("%s/%s", ...) with sep = "/").
Join(ss, sep) ==
  IF ss = <<>> THEN <<>>
  ELSE IF Len(ss) = 1 THEN ss[1]
  ELSE ss[1] \o sep \o Join(Tail(ss), sep)

\* 'a'..'z', 'A'..'Z', '0'..'9'
AlnumBytes ==
  (Byte("a")..Byte("z")) \cup (Byte("A")..Byte("Z")) \cup (Byte("0")..Byte("9"))

IsAlnum(b) == b \in AlnumBytes

Slash == Str(<<"/">>)

Question == Str(<<"?">>)

Ampersand == Str(<<"&">>)

Equals == Str(<<"=">>)

Space == Byte(" ")

Plus == Byte("+")

Percent == Byte("%")

Colon == Byte(":")

-----------------------------------------------------------------------------
(* net/url: escaping, as url.PathEscape and url.QueryEscape compute it. *)

upperhex == Str(<<"0","1","2","3","4","5","6","7","8","9","A","B","C","D","E","F">>)

\* RFC 3986 section 2.3, the unreserved marks: never escaped.
UnreservedMarks == {Byte("-"), Byte("_"), Byte("."), Byte("~")}

\* RFC 3986 section 2.2, the reserved characters shouldEscape switches on.
Reserved ==
  {Byte("$"), Byte("&"), Byte("+"), Byte(","), Byte("/"), Byte(":"), Byte(";"),
   Byte("="), Byte("?"), Byte("@")}

\* The reserved characters escaped in mode encodePathSegment.
SegmentReserved == {Byte("/"), Byte(";"), Byte(","), Byte("?")}

\* net/url shouldEscape(c, mode) for mode encodePathSegment and
\* encodeQueryComponent.
shouldEscape(b, mode) ==
  IF IsAlnum(b) THEN FALSE
  ELSE IF b \in UnreservedMarks THEN FALSE
  ELSE IF b \in Reserved
    THEN IF mode = "encodePathSegment" THEN b \in SegmentReserved ELSE TRUE
  ELSE TRUE

RECURSIVE escape(_, _)
\* net/url escape(s, mode).
escape(s, mode) ==
  IF s = <<>> THEN <<>>
  ELSE LET b == Head(s)
           e == IF b = Space /\ mode = "encodeQueryComponent"
                  THEN <<Plus>>
                ELSE IF shouldEscape(b, mode)
                  THEN <<Percent, upperhex[(b \div 16) + 1], upperhex[(b % 16) + 1]>>
                ELSE <<b>>
       IN e \o escape(Tail(s), mode)

PathEscape(s) == escape(s, "encodePathSegment")

QueryEscape(s) == escape(s, "encodeQueryComponent")

RECURSIVE StrLess(_, _)
\* Go's string order (bytewise), which sort.Strings uses in Values.Encode.
StrLess(a, b) ==
  IF b = <<>> THEN FALSE
  ELSE IF a = <<>> THEN TRUE
  ELSE IF Head(a) # Head(b) THEN Head(a) < Head(b)
  ELSE StrLess(Tail(a), Tail(b))

RECURSIVE EncodeKeys(_, _)
EncodeKeys(q, ks) ==
  IF ks = {} THEN <<>>
  ELSE LET k == CHOOSE x \in ks : \A y \in ks \ {x} : StrLess(x, y)
           rest == EncodeKeys(q, ks \ {k})
       IN QueryEscape(k) \o Equals \o QueryEscape(q[k])
          \o (IF rest = <<>> THEN <<>> ELSE Ampersand \o rest)

\* url.Values.Encode: "k=v" pairs sorted by key, joined by "&". A Values
\* here maps each key present to its one value (the builder only uses Set).
Encode(q) == EncodeKeys(q, DOMAIN q)

\* url.Values.Set(k, v).
ValuesSet(q, k, v) == [x \in (DOMAIN q) \cup {k} |-> IF x = k THEN v ELSE q[x]]

-----------------------------------------------------------------------------
(* bark.go *)

LevelActive == Str(<<"a","c","t","i","v","e">>)

LevelTimeSensitive == Str(<<"t","i","m","e","S","e","n","s","i","t","i","v","e">>)

LevelPassive == Str(<<"p","a","s","s","i","v","e">>)

LevelCritical == Str(<<"c","r","i","t","i","c","a","l">>)

\* defaultTitle = "无名消息", as its UTF-8 bytes.
defaultTitle == <<230, 151, 160, 229, 144, 141, 230, 182, 136, 230, 129, 175>>

DefaultBaseURL ==
  Str(<<"h","t","t","p","s",":","/","/","a","p","i",".","d","a","y",".","a","p","p">>)

KeyIcon == Str(<<"i","c","o","n">>)

KeySound == Str(<<"s","o","u","n","d">>)

KeyLevel == Str(<<"l","e","v","e","l">>)

\* A nil *Client.
NilClient == [isNil |-> TRUE, baseURL |-> <<>>, key |-> <<>>]

ErrNil == [kind |-> "nil", code |-> 0, cause |-> "nil"]

\* NewClient without the default for an empty baseURL.
NewClientResult_NoDefault(baseURL, key) ==
  IF key = <<>>
    THEN [client |-> NilClient,
          err |-> [kind |-> "bark key is required", code |-> 0, cause |-> "nil"]]
    ELSE [client |-> [isNil |-> FALSE, baseURL |-> baseURL, key |-> key],
          err |-> ErrNil]

\* NewClient(baseURL, key): the pair (client, err) it returns.
NewClientResult(baseURL, key) ==
  LET b == IF baseURL = <<>> THEN DefaultBaseURL ELSE baseURL
  IN IF key = <<>>
       THEN [client |-> NilClient,
             err |-> [kind |-> "bark key is required", code |-> 0, cause |-> "nil"]]
       ELSE [client |-> [isNil |-> FALSE, baseURL |-> b, key |-> key],
             err |-> ErrNil]

\* The zero notification struct.
ZeroNotification ==
  [title |-> <<>>, body |-> <<>>, subtitle |-> <<>>, icon |-> <<>>,
   sound |-> <<>>, level |-> <<>>, isCritical |-> FALSE]

\* &notification{title: defaultTitle, body: body}
NewNotification(b) == [ZeroNotification EXCEPT !.title = defaultTitle, !.body = b]

WithTitle(title) == [op |-> "WithTitle", arg |-> title]

WithSubtitle(subtitle) == [op |-> "WithSubtitle", arg |-> subtitle]

WithIcon(iconURL) == [op |-> "WithIcon", arg |-> iconURL]

WithSound(sound) == [op |-> "WithSound", arg |-> sound]

WithTimeSensitive == [op |-> "WithTimeSensitive", arg |-> <<>>]

WithCriticalNotify == [op |-> "WithCriticalNotify", arg |-> <<>>]

\* opt(n): the notification after the Option's closure has run on it.
ApplyOption(opt, m) ==
  CASE opt.op = "WithTitle" -> [m EXCEPT !.title = opt.arg]
    [] opt.op = "WithSubtitle" -> [m EXCEPT !.subtitle = opt.arg]
    [] opt.op = "WithIcon" -> [m EXCEPT !.icon = opt.arg]
    [] opt.op = "WithSound" -> [m EXCEPT !.sound = opt.arg]
    [] opt.op = "WithTimeSensitive" -> [m EXCEPT !.level = LevelTimeSensitive]
    [] opt.op = "WithCriticalNotify" ->
         [m EXCEPT !.level = LevelCritical, !.isCritical = TRUE]

RECURSIVE ApplyOpts_Reversed(_, _)
\* The Options applied from the last to the first.
ApplyOpts_Reversed(os, m) ==
  IF os = <<>> THEN m ELSE ApplyOption(Head(os), ApplyOpts_Reversed(Tail(os), m))

RECURSIVE ApplyOpts(_, _)
\* for _, opt := range opts { opt(n) }
ApplyOpts(os, m) ==
  IF os = <<>> THEN m ELSE ApplyOpts(Tail(os), ApplyOption(Head(os), m))

\* The path with a subtitle taking the title's place when the title is empty.
urlPath_SubtitleAlone(cl, m) ==
  LET encodedBody == PathEscape(m.body)
  IN IF m.title # <<>> /\ m.subtitle # <<>>
       THEN Join(<<cl.key, PathEscape(m.title), PathEscape(m.subtitle), encodedBody>>, Slash)
     ELSE IF m.title # <<>>
       THEN Join(<<cl.key, PathEscape(m.title), encodedBody>>, Slash)
     ELSE IF m.subtitle # <<>>
       THEN Join(<<cl.key, PathEscape(m.subtitle), encodedBody>>, Slash)
     ELSE Join(<<cl.key, encodedBody>>, Slash)

\* The path buildNotificationURL assembles.
urlPath(cl, m) ==
  LET encodedBody == PathEscape(m.body)
  IN IF m.title # <<>> /\ m.subtitle # <<>>
       THEN Join(<<cl.key, PathEscape(m.title), PathEscape(m.subtitle), encodedBody>>, Slash)
     ELSE IF m.title # <<>>
       THEN Join(<<cl.key, PathEscape(m.title), encodedBody>>, Slash)
     ELSE Join(<<cl.key, encodedBody>>, Slash)

\* The url.Values without the isCritical override of the level.
query_NoCriticalOverride(m) ==
  LET q0 == [x \in {} |-> <<>>]
      q1 == IF m.icon # <<>> THEN ValuesSet(q0, KeyIcon, m.icon) ELSE q0
      q2 == IF m.sound # <<>> THEN ValuesSet(q1, KeySound, m.sound) ELSE q1
      q3 == IF m.level # <<>> THEN ValuesSet(q2, KeyLevel, m.level) ELSE q2
  IN q3

\* The url.Values buildNotificationURL fills.
query(m) ==
  LET q0 == [x \in {} |-> <<>>]
      q1 == IF m.icon # <<>> THEN ValuesSet(q0, KeyIcon, m.icon) ELSE q0
      q2 == IF m.sound # <<>> THEN ValuesSet(q1, KeySound, m.sound) ELSE q1
      q3 == IF m.level # <<>> THEN ValuesSet(q2, KeyLevel, m.level) ELSE q2
      q4 == IF m.isCritical THEN ValuesSet(q3, KeyLevel, LevelCritical) ELSE q3
  IN q4

\* The target with "?" and the encoded query appended also when the query is
\* empty.
buildNotificationURL_AlwaysQuestion(cl, m) ==
  Join(<<cl.baseURL, urlPath(cl, m)>>, Slash) \o Question \o Encode(query(m))

\* (c *Client) buildNotificationURL(n).
buildNotificationURL(cl, m) ==
  LET q == query(m)
      base == Join(<<cl.baseURL, urlPath(cl, m)>>, Slash)
  IN IF Cardinality(DOMAIN q) > 0
       THEN base \o Question \o Encode(q)
       ELSE base

\* http.NewRequestWithContext(ctx, GET, target, nil): the error of url.Parse on
\* the target, for the two ways a target built here can fail to parse (a
\* control byte, a leading colon); "nil" when the request is created.
NewRequestErr(target) ==
  IF \E i \in 1..Len(target) : target[i] < 32 \/ target[i] = 127
    THEN "net/url: invalid control character in URL"
  ELSE IF target # <<>> /\ target[1] = Colon
    THEN "missing protocol scheme"
  ELSE "nil"

StatusOK == 200

\* No call of client.Do was made.
NoResp == [got |-> "none", status |-> 0, cause |-> "nil"]

Response(status) == [got |-> "response", status |-> status, cause |-> "nil"]

Failure(cause) == [got |-> "error", status |-> 0, cause |-> cause]

\* client.Do called again when the first GET was not answered with 200.
Exchange_RetryOnFailure(out) ==
  IF out.got = "response" /\ out.status = StatusOK
    THEN [issued |-> 1, resp |-> out]
    ELSE [issued |-> 2, resp |-> out]

\* c.client.Do(req) within Send: Send calls it once and keeps what it returns.
\* out is what the network does with one GET.
Exchange(out) == [issued |-> 1, resp |-> out]

\* The mapping with only the statuses from 400 on reported as errors.
SendErr_ClientErrorsOnly(r) ==
  IF r.got = "error"
    THEN [kind |-> "failed to send request", code |-> 0, cause |-> r.cause]
  ELSE IF r.status >= 400
    THEN [kind |-> "unexpected status code", code |-> r.status, cause |-> "nil"]
  ELSE ErrNil

\* Send's mapping of what client.Do returned to the error it returns.
SendErr(r) ==
  IF r.got = "error"
    THEN [kind |-> "failed to send request", code |-> 0, cause |-> r.cause]
  ELSE IF r.status # StatusOK
    THEN [kind |-> "unexpected status code", code |-> r.status, cause |-> "nil"]
  ELSE ErrNil

\* Send without the check of its body argument.
BodyMissing_Never(b) == FALSE

\* Send's check of its body argument: TRUE when it returns the error at once.
BodyMissing(b) == b = <<>>

\* (c *Client) Send(ctx, body, opts...) with out what the network does with
\* the GET, if one is issued: the call's locals and the error it returns.
SendResult(cl, b, os, out) ==
  IF BodyMissing(b)
    THEN [n |-> ZeroNotification, applied |-> 0, apiURL |-> <<>>, issued |-> 0,
          resp |-> NoResp,
          err |-> [kind |-> "notification body is required", code |-> 0,
                   cause |-> "nil"]]
  ELSE LET m == ApplyOpts(os, NewNotification(b))
           target == buildNotificationURL(cl, m)
           reqErr == NewRequestErr(target)
           x == Exchange(out)
       IN IF reqErr # "nil"
            THEN [n |-> m, applied |-> Len(os), apiURL |-> target, issued |-> 0,
                  resp |-> NoResp,
                  err |-> [kind |-> "failed to create request", code |-> 0,
                           cause |-> reqErr]]
            ELSE [n |-> m, applied |-> Len(os), apiURL |-> target,
                  issued |-> x.issued, resp |-> x.resp, err |-> SendErr(x.resp)]

-----------------------------------------------------------------------------
(* The inputs enumerated. *)

BaseURLs == {<<>>, Str(<<"h","t","t","p","s",":","/","/","a","p","i",".","d","a","y",".","a","p","p">>), Str(<<"h","t","t","p",":","/","/","h",":","8","0","8","0">>)}

\* A base URL that url.Parse rejects (no scheme before the colon).
MalformedBaseURL == Str(<<":","/","/","h">>)

Keys == {<<>>, Str(<<"t","e","s","t","-","k","e","y">>)}

Bodies ==
  {<<>>,
   Str(<<"t","e","s","t"," ","m","e","s","s","a","g","e">>),
   Str(<<"L","1","\n","L","2">>),
   Str(<<"S","p","e","c","i","a","l"," ","c","h","a","r","s",":"," ","!","@","#","$","%","^","&","*","(",")">>),
   Str(<<"a","/","b","?","c","-","d","_","e",".","f","~","g">>)}

Titles == {<<>>, Str(<<"T","e","s","t"," ","T","i","t","l","e">>), Str(<<"T",":","2">>)}

Subtitles == {<<>>, Str(<<"T","e","s","t"," ","S","u","b","t","i","t","l","e">>)}

Icons == {<<>>, Str(<<"h","t","t","p","s",":","/","/","e",".","c","o","m","/","i",".","p","n","g","?","a","=","1","&","b"," ","2">>)}

Sounds == {<<>>, Str(<<"b","e","l","l">>)}

Modifiers ==
  {WithTitle(t) : t \in Titles} \cup {WithSubtitle(t) : t \in Subtitles}
    \cup {WithIcon(t) : t \in Icons} \cup {WithSound(t) : t \in Sounds}
    \cup {WithTimeSensitive, WithCriticalNotify}

\* The "full notification" of TestBuildNotificationURL and the last call of
\* the package example.
ExampleOpts ==
  {<<WithTitle(Str(<<"T","e","s","t"," ","T","i","t","l","e">>)),
     WithSubtitle(Str(<<"T","e","s","t"," ","S","u","b","t","i","t","l","e">>)),
     WithSound(Str(<<"b","e","l","l">>)), WithTimeSensitive>>,
   <<WithTitle(Str(<<"T","e","s","t"," ","T","i","t","l","e">>)),
     WithSubtitle(Str(<<"T","e","s","t"," ","S","u","b","t","i","t","l","e">>)),
     WithIcon(Str(<<"h","t","t","p","s",":","/","/","e",".","c","o","m","/","i",".","p","n","g","?","a","=","1","&","b"," ","2">>)),
     WithSound(Str(<<"b","e","l","l">>)), WithTimeSensitive, WithCriticalNotify>>}

OptSeqs == UNION {[1..k -> Modifiers] : k \in 0..MaxOpts} \cup ExampleOpts

\* The Option sequences Send is called with in the client's life.
SendOpts ==
  {<<>>,
   <<WithTitle(<<>>), WithSound(Str(<<"b","e","l","l">>))>>,
   <<WithTimeSensitive, WithCriticalNotify>>}

SendBodies == {<<>>, Str(<<"t","e","s","t"," ","m","e","s","s","a","g","e">>), Str(<<"L","1","\n","L","2">>)}

Contexts == {"live", "cancelled"}

Statuses == {200, 201, 204, 404, 500}

\* What the network can do with a GET issued under context cx: a context that
\* is already cancelled makes client.Do fail with the context's error.
Outcomes(cx) ==
  IF cx = "cancelled"
    THEN {Failure("context canceled")}
    ELSE {Response(st) : st \in Statuses}
           \cup {Failure("dial tcp: connection refused"),
                 Failure("context deadline exceeded")}

-----------------------------------------------------------------------------
(* The client's life: NewClient, then Send calls. *)

NoErr == [kind |-> "none", code |-> 0, cause |-> "nil"]

Init ==
  /\ c = NilClient
  /\ ncErr = NoErr
  /\ ncBaseURL = <<>>
  /\ ncKey = <<>>
  /\ pc = "idle"
  /\ body = <<>>
  /\ opts = <<>>
  /\ ctx = "live"
  /\ n = ZeroNotification
  /\ applied = 0
  /\ apiURL = <<>>
  /\ issued = 0
  /\ resp = NoResp
  /\ err = NoErr
  /\ news = 0
  /\ sends = 0
  /\ sendsNonEmpty = 0
  /\ requests = 0

\* client, err := NewClient(baseURL, key)
NewClient ==
  /\ news < MaxNews
  /\ \E baseURL \in BaseURLs \cup {MalformedBaseURL}, key \in Keys :
       \E r \in {NewClientResult(baseURL, key)} :
         /\ news' = news + 1
         /\ ncBaseURL' = baseURL
         /\ ncKey' = key
         /\ c' = r.client
         /\ ncErr' = r.err
         /\ UNCHANGED <<pc, body, opts, ctx, n, applied, apiURL, issued, resp, err,
                        sends, sendsNonEmpty, requests>>

\* err := client.Send(ctx, body, opts...)
Send ==
  /\ ~c.isNil
  /\ sends < MaxSends
  /\ \E b \in SendBodies, os \in SendOpts, cx \in Contexts :
       \E out \in Outcomes(cx) :
         \E r \in {SendResult(c, b, os, out)} :
           /\ pc' = "returned"
           /\ body' = b
           /\ opts' = os
           /\ ctx' = cx
           /\ n' = r.n
           /\ applied' = r.applied
           /\ apiURL' = r.apiURL
           /\ issued' = r.issued
           /\ resp' = r.resp
           /\ err' = r.err
           /\ sends' = sends + 1
           /\ sendsNonEmpty' = sendsNonEmpty + (IF b = <<>> THEN 0 ELSE 1)
           /\ requests' = requests + r.issued
           /\ UNCHANGED <<c, ncErr, ncBaseURL, ncKey, news>>

Next == NewClient \/ Send

Spec == Init /\ [][Next]_vars

-----------------------------------------------------------------------------
(* The builder alone, as TestBuildNotificationURL drives it: a notification   *)
(* in its initial state, the Options applied in order, the target built.     *)

InitBuild ==
  /\ c \in {NewClientResult(b, k).client : b \in BaseURLs, k \in Keys \ {<<>>}}
  /\ ncErr = ErrNil
  /\ ncBaseURL = c.baseURL
  /\ ncKey = c.key
  /\ pc = "start"
  /\ body \in Bodies \ {<<>>}
  /\ opts \in OptSeqs
  /\ ctx = "live"
  /\ n = NewNotification(body)
  /\ applied = 0
  /\ apiURL = <<>>
  /\ issued = 0
  /\ resp = NoResp
  /\ err = NoErr
  /\ news = 1
  /\ sends = 0
  /\ sendsNonEmpty = 0
  /\ requests = 0

\* for _, opt := range opts { opt(n) }
ApplyOptions ==
  /\ pc = "start"
  /\ n' = ApplyOpts(opts, n)
  /\ applied' = Len(opts)
  /\ pc' = "applied"
  /\ UNCHANGED <<c, ncErr, ncBaseURL, ncKey, body, opts, ctx, apiURL, issued, resp,
                 err, news, sends, sendsNonEmpty, requests>>

\* apiURL := c.buildNotificationURL(n)
BuildURL ==
  /\ pc = "applied"
  /\ apiURL' = buildNotificationURL(c, n)
  /\ pc' = "built"
  /\ UNCHANGED <<c, ncErr, ncBaseURL, ncKey, body, opts, ctx, n, applied, issued,
                 resp, err, news, sends, sendsNonEmpty, requests>>

NextBuild == ApplyOptions \/ BuildURL

SpecBuild == InitBuild /\ [][NextBuild]_vars

-----------------------------------------------------------------------------
(* Taking a built target apart again, as the server does: the part after     *)
(* "{baseURL}/{key}/" is split at the first "?" into path and query, the     *)
(* path at each "/" into segments, the query at each "&" into "k=v" pairs,   *)
(* and the segments and values are unescaped.                                *)

IndexOf(s, b) ==
  IF \E i \in 1..Len(s) : s[i] = b
    THEN CHOOSE i \in 1..Len(s) : s[i] = b /\ \A j \in 1..(i - 1) : s[j] # b
    ELSE 0

RECURSIVE SplitBy(_, _)
SplitBy(s, b) ==
  LET i == IndexOf(s, b)
  IN IF i = 0 THEN <<s>>
     ELSE <<SubSeq(s, 1, i - 1)>> \o SplitBy(SubSeq(s, i + 1, Len(s)), b)

HexVal(b) == (CHOOSE i \in 1..16 : upperhex[i] = b) - 1

RECURSIVE Unescape(_, _)
\* The inverse of percent-encoding; in a query "+" stands for a space.
Unescape(s, inQuery) ==
  IF s = <<>> THEN <<>>
  ELSE IF s[1] = Percent /\ Len(s) >= 3
    THEN <<HexVal(s[2]) * 16 + HexVal(s[3])>> \o Unescape(SubSeq(s, 4, Len(s)), inQuery)
  ELSE IF s[1] = Plus /\ inQuery
    THEN <<Space>> \o Unescape(Tail(s), inQuery)
  ELSE <<s[1]>> \o Unescape(Tail(s), inQuery)

\* "{baseURL}/{key}/"
TargetPrefix == c.baseURL \o Slash \o c.key \o Slash

HasPrefix(s, p) == Len(s) >= Len(p) /\ SubSeq(s, 1, Len(p)) = p

HasSuffix(s, p) == Len(s) >= Len(p) /\ SubSeq(s, Len(s) - Len(p) + 1, Len(s)) = p

TargetRest == SubSeq(apiURL, Len(TargetPrefix) + 1, Len(apiURL))

TargetHasQuery == IndexOf(TargetRest, Question[1]) # 0

TargetPath ==
  IF TargetHasQuery
    THEN SubSeq(TargetRest, 1, IndexOf(TargetRest, Question[1]) - 1)
    ELSE TargetRest

TargetQueryString ==
  IF TargetHasQuery
    THEN SubSeq(TargetRest, IndexOf(TargetRest, Question[1]) + 1, Len(TargetRest))
    ELSE <<>>

\* The path segments after the key, still escaped.
TargetSegments == SplitBy(TargetPath, Slash[1])

\* The "k=v" pairs of the query, still escaped.
TargetPairs ==
  IF TargetQueryString = <<>> THEN <<>> ELSE SplitBy(TargetQueryString, Ampersand[1])

PairKey(p) == IF IndexOf(p, Equals[1]) = 0 THEN p ELSE SubSeq(p, 1, IndexOf(p, Equals[1]) - 1)

PairValue(p) ==
  IF IndexOf(p, Equals[1]) = 0 THEN <<>> ELSE SubSeq(p, IndexOf(p, Equals[1]) + 1, Len(p))

TargetHasParam(k) == \E i \in 1..Len(TargetPairs) : PairKey(TargetPairs[i]) = k

\* The unescaped value of query parameter k; <<>> when the target has none.
TargetParam(k) ==
  IF TargetHasParam(k)
    THEN LET i == CHOOSE j \in 1..Len(TargetPairs) : PairKey(TargetPairs[j]) = k
         IN Unescape(PairValue(TargetPairs[i]), TRUE)
    ELSE <<>>

\* The title, subtitle and body the server reads from the path, by position.
TargetTitle ==
  IF Len(TargetSegments) >= 2 THEN Unescape(TargetSegments[1], FALSE) ELSE <<>>

TargetSubtitle ==
  IF Len(TargetSegments) >= 3 THEN Unescape(TargetSegments[2], FALSE) ELSE <<>>

TargetBody == Unescape(TargetSegments[Len(TargetSegments)], FALSE)

\* What the Options of the call set, read off the sequence itself: the
\* argument of the last Option of kind op, or dflt when there is none.
LastIdx(ops) ==
  IF \E i \in 1..Len(opts) : opts[i].op \in ops
    THEN CHOOSE i \in 1..Len(opts) :
           opts[i].op \in ops /\ \A j \in (i + 1)..Len(opts) : opts[j].op \notin ops
    ELSE 0

LastArg(op, dflt) == IF LastIdx({op}) = 0 THEN dflt ELSE opts[LastIdx({op})].arg

\* The level of the last Option that sets the level.
LastLevel ==
  LET i == LastIdx({"WithTimeSensitive", "WithCriticalNotify"})
  IN IF i = 0 THEN <<>>
     ELSE IF opts[i].op = "WithTimeSensitive"
       THEN Str(<<"t","i","m","e","S","e","n","s","i","t","i","v","e">>)
       ELSE Str(<<"c","r","i","t","i","c","a","l">>)

CriticalApplied == \E i \in 1..Len(opts) : opts[i].op = "WithCriticalNotify"

\* The target shows, for title, subtitle, icon and sound, the value of the last
\* Option that sets the field, and for the level the value lvl. (A subtitle
\* has a place in the path only behind a title.)
TargetShows(lvl) ==
  LET title == LastArg("WithTitle", defaultTitle)
      subtitle == LastArg("WithSubtitle", <<>>)
  IN /\ HasPrefix(apiURL, TargetPrefix)
     /\ TargetTitle = title
     /\ title # <<>> => TargetSubtitle = subtitle
     /\ TargetBody = body
     /\ TargetParam(KeyIcon) = LastArg("WithIcon", <<>>)
     /\ TargetParam(KeySound) = LastArg("WithSound", <<>>)
     /\ TargetParam(KeyLevel) = lvl

-----------------------------------------------------------------------------
(* The claims. *)

\* C1: Send with a non-empty body and no modifiers builds the target
\* {baseURL}/{key}/{escape(body)}: no title segment, no query string.
C1_NoModifiersBodyOnly ==
  (pc = "returned" /\ body # <<>> /\ opts = <<>>)
    => apiURL = c.baseURL \o Slash \o c.key \o Slash \o PathEscape(body)

\* C2: in a built target every byte of a path segment is an ASCII letter or
\* digit or belongs to a percent-encoding: nothing outside [A-Za-z0-9] stands
\* in a segment literally, and the segments decode to title, subtitle, body.
C2_OnlyAlnumLiteral ==
  pc = "built" =>
    /\ \A i \in 1..Len(TargetSegments) :
         \A j \in 1..Len(TargetSegments[i]) :
           TargetSegments[i][j] \in AlnumBytes \cup {Percent}
    /\ TargetBody = body

\* C3 as stated: the target shows, for each of title, subtitle, icon, sound
\* and level, the value set by the last modifier that sets the field.
C3_LastModifierWins == pc = "built" => TargetShows(LastLevel)

\* C3 as amended: the same for title, subtitle, icon and sound; the level
\* shown is critical once WithCriticalNotify is anywhere in the sequence, and
\* otherwise the level of the last modifier that sets it.
C3_LastModifierWinsButCritical ==
  pc = "built" =>
    /\ n.title = LastArg("WithTitle", defaultTitle)
    /\ n.subtitle = LastArg("WithSubtitle", <<>>)
    /\ n.icon = LastArg("WithIcon", <<>>)
    /\ n.sound = LastArg("WithSound", <<>>)
    /\ n.level = LastLevel
    /\ TargetShows(IF CriticalApplied THEN Str(<<"c","r","i","t","i","c","a","l">>) ELSE LastLevel)

\* C3's case: two modifiers set the title to different values and the target
\* shows the later one.
C3_Witness ==
  /\ pc = "built"
  /\ Len(opts) = 2
  /\ opts[1].op = "WithTitle" /\ opts[2].op = "WithTitle"
  /\ opts[1].arg # <<>> /\ opts[2].arg # <<>> /\ opts[1].arg # opts[2].arg
  /\ TargetTitle = opts[2].arg

\* C4: once WithCriticalNotify has been applied, whatever the order, and
\* whenever isCritical is true, whatever the level field holds, the target's
\* query carries level=critical.
C4_CriticalOverrides ==
  pc = "built" =>
    /\ CriticalApplied => n.isCritical
    /\ n.isCritical =>
         /\ TargetHasParam(KeyLevel)
         /\ TargetParam(KeyLevel) = Str(<<"c","r","i","t","i","c","a","l">>)
         /\ Cardinality({i \in 1..Len(TargetPairs) : PairKey(TargetPairs[i]) = KeyLevel}) = 1

\* C4's case: WithTimeSensitive after WithCriticalNotify leaves the level field
\* at timeSensitive, and the target still says critical.
C4_Witness ==
  /\ pc = "built"
  /\ opts = <<WithCriticalNotify, WithTimeSensitive>>
  /\ n.level = LevelTimeSensitive
  /\ TargetParam(KeyLevel) = LevelCritical

\* C5: the path after the key is title/subtitle/body when title and subtitle
\* are both non-empty, title/body when only the title is, and body alone
\* otherwise; so with an empty title a subtitle changes nothing in the target.
C5_PathPrecedence ==
  pc = "built" =>
    /\ HasPrefix(apiURL, TargetPrefix)
    /\ TargetSegments =
         IF n.title # <<>> /\ n.subtitle # <<>>
           THEN <<PathEscape(n.title), PathEscape(n.subtitle), PathEscape(n.body)>>
         ELSE IF n.title # <<>>
           THEN <<PathEscape(n.title), PathEscape(n.body)>>
         ELSE <<PathEscape(n.body)>>
    /\ n.title = <<>> => apiURL = buildNotificationURL(c, [n EXCEPT !.subtitle = <<>>])

\* C5's case: the title emptied, a subtitle set, and a path of the body alone.
C5_Witness ==
  /\ pc = "built"
  /\ n.title = <<>>
  /\ n.subtitle # <<>>
  /\ body # <<>>
  /\ Len(TargetSegments) = 1
  /\ TargetBody = body

\* C10: the target has an icon parameter iff icon is non-empty, a sound
\* parameter iff sound is non-empty, a level parameter iff level is non-empty
\* or isCritical; they decode to the fields; the target has "?" and a query
\* iff one of them is set, and otherwise ends with the escaped body.
C10_QueryAssembly ==
  pc = "built" =>
    LET any == n.icon # <<>> \/ n.sound # <<>> \/ n.level # <<>> \/ n.isCritical
    IN /\ HasPrefix(apiURL, TargetPrefix)
       /\ TargetHasParam(KeyIcon) <=> n.icon # <<>>
       /\ TargetHasParam(KeySound) <=> n.sound # <<>>
       /\ TargetHasParam(KeyLevel) <=> (n.level # <<>> \/ n.isCritical)
       /\ TargetParam(KeyIcon) = n.icon
       /\ TargetParam(KeySound) = n.sound
       /\ \A i \in 1..Len(TargetPairs) :
            PairKey(TargetPairs[i]) \in {KeyIcon, KeySound, KeyLevel}
       /\ TargetHasQuery <=> any
       /\ any => TargetQueryString # <<>>
       /\ ~any => /\ HasSuffix(apiURL, Slash \o PathEscape(n.body))
                  /\ \A i \in 1..Len(TargetRest) : TargetRest[i] # Question[1]

\* C10's case: an icon whose URL itself holds "?", "&", "=" and a space, no
\* sound, and a target whose query is the icon alone.
C10_Witness ==
  /\ pc = "built"
  /\ n.icon # <<>>
  /\ n.sound = <<>>
  /\ n.level = <<>>
  /\ IndexOf(n.icon, Ampersand[1]) # 0
  /\ Len(TargetPairs) = 1
  /\ TargetParam(KeyIcon) = n.icon

\* C6: Send with an empty body returns the validation error, whatever the
\* context and the modifiers, having applied no modifier, built no target and
\* issued no request.
C6_EmptyBodyNoIO ==
  (pc = "returned" /\ body = <<>>) =>
    /\ err.kind = "notification body is required"
    /\ applied = 0
    /\ n = ZeroNotification
    /\ apiURL = <<>>
    /\ issued = 0
    /\ resp = NoResp

\* C6's case: an empty body, a cancelled context and modifiers given.
C6_Witness ==
  /\ pc = "returned"
  /\ body = <<>>
  /\ ctx = "cancelled"
  /\ opts # <<>>
  /\ err.kind = "notification body is required"

\* C7: NewClient returns an error and a nil client exactly when key is empty;
\* otherwise a client with the given key and the given base URL, or
\* https://api.day.app when baseURL is empty.
C7_NewClient ==
  news > 0 =>
    /\ ncErr.kind # "nil" <=> ncKey = <<>>
    /\ c.isNil <=> ncKey = <<>>
    /\ ncKey # <<>> =>
         /\ c.key = ncKey
         /\ c.baseURL = IF ncBaseURL = <<>>
                          THEN Str(<<"h","t","t","p","s",":","/","/","a","p","i",".","d","a","y",".","a","p","p">>)
                          ELSE ncBaseURL

\* C7's case: an empty base URL with a key, and a client on the default
\* endpoint.
C7_Witness ==
  /\ news > 0
  /\ ncBaseURL = <<>>
  /\ ncKey # <<>>
  /\ ~c.isNil
  /\ ncErr = ErrNil

\* C8: when client.Do returned a response, Send returns nil iff the status
\* is 200, and otherwise an error carrying the status code; when it returned
\* an error, Send returns a different error, wrapping that cause.
C8_StatusClassification ==
  pc = "returned" =>
    /\ resp.got = "response" =>
         /\ err = ErrNil <=> resp.status = 200
         /\ resp.status # 200 =>
              err.kind = "unexpected status code" /\ err.code = resp.status
    /\ resp.got = "error" =>
         /\ err.kind = "failed to send request"
         /\ err.cause = resp.cause

\* C8's case: a 201 response, reported as an error with code 201.
C8_Witness ==
  /\ pc = "returned"
  /\ resp.got = "response"
  /\ resp.status = 201
  /\ err.code = 201

\* C9: a Send call issues at most one GET, also when the GET fails or is
\* answered with a non-200 status, and the requests issued so far never
\* exceed the Send calls with a non-empty body.
C9_SingleExchange ==
  /\ issued \in {0, 1}
  /\ issued = 0 <=> resp = NoResp
  /\ requests <= sendsNonEmpty
  /\ sendsNonEmpty <= sends

\* C9's case: two Send calls, the last one failed in transport, two requests.
C9_Witness ==
  /\ pc = "returned"
  /\ sends = 2
  /\ requests = 2
  /\ issued = 1
  /\ err.kind = "failed to send request"

=============================================================================
